---------------------------- MODULE Spec2Model ----------------------------
(***************************************************************************)
(* The binNMU decision engine of drt-tools (src/main.rs) and the version   *)
(* handling of assorted-debian-utils (src/version.rs).                     *)
(*                                                                         *)
(* Representation.  A Rust String is a sequence of one-character strings   *)
(* (version strings) or a sequence of tokens whose concatenation is the    *)
(* string (signers, item names).  Option<T> is a sequence of length at     *)
(* most one: None is << >> and Some(x) is <<x>>.  A HashMap is a function  *)
(* on its key set.  A u32 that is used arithmetically is a pair of 16-bit  *)
(* halves, because the model checker's integers are 32-bit signed; a u32   *)
(* that is only parsed, compared and printed is its decimal digit string   *)
(* without leading zeros.                                                  *)
(***************************************************************************)
EXTENDS Integers, Sequences, FiniteSets, TLC

VARIABLES
    excuses,          \* Excuses.sources: the items of the snapshot, in order
    ma_same_sources,  \* SourcePackages.ma_same_sources
    overflow_checks,  \* build profile: TRUE when integer overflow panics
    idx,              \* number of items the loop of main has consumed
    to_binnmu,        \* the vector to_binnmu of main
    outcome,          \* per consumed item, the branch of the loop body it left by
    output,           \* the lines printed so far
    pc,               \* position of the run
    arg,              \* argument of the function under test (function specs)
    ret               \* its result, None until it has been called

vars == <<excuses, ma_same_sources, overflow_checks, idx, to_binnmu, outcome,
          output, pc, arg, ret>>

----------------------------------------------------------------------------
(* Option<T> and general helpers                                            *)

None == << >>
Some(x) == <<x>>
IsSome(o) == Len(o) = 1
IsNone(o) == Len(o) = 0
Unwrap(o) == o[1]

Range(s) == {s[i] : i \in 1..Len(s)}

\* str::ends_with on token or character sequences
EndsWith(s, suffix) ==
    /\ Len(s) >= Len(suffix)
    /\ SubSeq(s, Len(s) - Len(suffix) + 1, Len(s)) = suffix

\* all sequences over S of length at most n
RECURSIVE SeqsUpTo(_, _)
SeqsUpTo(S, n) ==
    IF n = 0 THEN {<< >>}
    ELSE LET shorter == SeqsUpTo(S, n - 1)
         IN  shorter \cup {Append(s, c) : s \in {t \in shorter : Len(t) = n - 1}, c \in S}

\* all orders in which the elements of the finite set S can be listed
RECURSIVE Orderings(_)
Orderings(S) ==
    IF S = {} THEN {<< >>}
    ELSE UNION {{<<x>> \o rest : rest \in Orderings(S \ {x})} : x \in S}

----------------------------------------------------------------------------
(* version.rs: PackageVersion                                               *)

Digits == {"0", "1", "2", "3", "4", "5", "6", "7", "8", "9"}
\* the letters the modelled inputs use; char::is_alphanumeric holds of them
Letters == {"a", "d", "f", "g", "s"}

DigitVal(c) ==
    CASE c = "0" -> 0 [] c = "1" -> 1 [] c = "2" -> 2 [] c = "3" -> 3
      [] c = "4" -> 4 [] c = "5" -> 5 [] c = "6" -> 6 [] c = "7" -> 7
      [] c = "8" -> 8 [] c = "9" -> 9

is_alphanumeric(c) == c \in Digits \cup Letters

\* u32::MAX = 4294967295 as a digit string
U32_MAX_DIGITS == <<"4", "2", "9", "4", "9", "6", "7", "2", "9", "5">>

RECURSIVE StripLeadingZeros(_)
StripLeadingZeros(d) ==
    IF Len(d) > 1 /\ d[1] = "0" THEN StripLeadingZeros(Tail(d)) ELSE d

\* d <= e for digit strings of the same length
RECURSIVE DigitsLeq(_, _)
DigitsLeq(d, e) ==
    IF Len(d) = 0 THEN TRUE
    ELSE IF DigitVal(d[1]) # DigitVal(e[1]) THEN DigitVal(d[1]) < DigitVal(e[1])
    ELSE DigitsLeq(Tail(d), Tail(e))

FitsU32(d) ==
    LET c == StripLeadingZeros(d)
    IN  \/ Len(c) < Len(U32_MAX_DIGITS)
        \/ Len(c) = Len(U32_MAX_DIGITS) /\ DigitsLeq(c, U32_MAX_DIGITS)

\* str::parse::<u32>: an optional '+', then one or more ASCII digits, the
\* value at most u32::MAX.  The value is its canonical digit string.
parse_u32(s) ==
    LET digits == IF Len(s) > 0 /\ s[1] = "+" THEN Tail(s) ELSE s
    IN  IF Len(digits) = 0 \/ \E i \in 1..Len(digits) : digits[i] \notin Digits
        THEN None
        ELSE IF ~FitsU32(digits) THEN None
        ELSE Some(StripLeadingZeros(digits))

\* first and last position of the character c in s, 0 when absent
FirstIndex(s, c) ==
    IF \E i \in 1..Len(s) : s[i] = c
    THEN CHOOSE i \in 1..Len(s) : s[i] = c /\ \A j \in 1..(i - 1) : s[j] # c
    ELSE 0
LastIndex(s, c) ==
    IF \E i \in 1..Len(s) : s[i] = c
    THEN CHOOSE i \in 1..Len(s) : s[i] = c /\ \A j \in (i + 1)..Len(s) : s[j] # c
    ELSE 0

\* str::split_once: split at the first occurrence of the delimiter
split_once(s, c) ==
    LET i == FirstIndex(s, c)
    IN  IF i = 0 THEN None
        ELSE Some(<<SubSeq(s, 1, i - 1), SubSeq(s, i + 1, Len(s))>>)

\* str::rsplit_once: split at the last occurrence of the delimiter
rsplit_once(s, c) ==
    LET i == LastIndex(s, c)
    IN  IF i = 0 THEN None
        ELSE Some(<<SubSeq(s, 1, i - 1), SubSeq(s, i + 1, Len(s))>>)

Ok(v) == [err |-> "Ok", value |-> Some(v)]
Err(e) == [err |-> e, value |-> None]
IsOk(r) == r.err = "Ok"

UpstreamChars == {".", "+", "-", "~"}
RevisionChars == {".", "+", "~"}

\* PackageVersion::new
new(epoch, upstream_version, debian_revision) ==
    IF \/ Len(upstream_version) = 0
       \/ \E i \in 1..Len(upstream_version) :
             /\ ~is_alphanumeric(upstream_version[i])
             /\ upstream_version[i] \notin UpstreamChars
    THEN Err("InvalidUpstreamVersion")
    ELSE IF /\ IsSome(debian_revision)
            /\ \/ Len(Unwrap(debian_revision)) = 0
               \/ \E i \in 1..Len(Unwrap(debian_revision)) :
                     /\ ~is_alphanumeric(Unwrap(debian_revision)[i])
                     /\ Unwrap(debian_revision)[i] \notin RevisionChars
    THEN Err("InvalidDebianRevision")
    ELSE Ok([epoch |-> epoch,
             upstream_version |-> upstream_version,
             debian_revision |-> debian_revision])

\* mutant of EpochSplit: the split at the last ':'
EpochSplit_last(value) == rsplit_once(value, ":")

\* the epoch part of TryFrom<&str>: the split at ':' and the u32 parse
EpochSplit(value) == split_once(value, ":")

\* mutant of RevisionSplit: the split at the first '-'
RevisionSplit_first(value) == split_once(value, "-")

\* the revision part of TryFrom<&str>: the split at '-'
RevisionSplit(value) == rsplit_once(value, "-")

\* TryFrom<&str> for PackageVersion
try_from(value) ==
    LET sp == EpochSplit(value)
        epoch_str == IF IsSome(sp) THEN Unwrap(sp)[1] ELSE << >>
        value1 == IF IsSome(sp) THEN Unwrap(sp)[2] ELSE value
        epoch == IF IsSome(sp) THEN parse_u32(epoch_str) ELSE None
        rsp == RevisionSplit(value1)
        value2 == IF IsSome(rsp) THEN Unwrap(rsp)[1] ELSE value1
        debian_revision == IF IsSome(rsp) THEN Some(Unwrap(rsp)[2]) ELSE None
    IN  IF IsSome(sp) /\ IsNone(epoch) THEN Err("InvalidEpoch")
        ELSE new(epoch, value2, debian_revision)

\* PackageVersion::epoch_or_0
epoch_or_0(v) == IF IsSome(v.epoch) THEN Unwrap(v.epoch) ELSE <<"0">>

\* PartialEq for PackageVersion (without libdpkg-sys)
eq(a, b) ==
    /\ epoch_or_0(a) = epoch_or_0(b)
    /\ a.upstream_version = b.upstream_version
    /\ a.debian_revision = b.debian_revision

\* mutant of to_string: the epoch is not written
to_string_no_epoch(v) ==
    v.upstream_version
        \o (IF IsSome(v.debian_revision) THEN <<"-">> \o Unwrap(v.debian_revision) ELSE << >>)

\* Display for PackageVersion; "{}" of the u32 epoch writes its decimal digits
to_string(v) ==
    (IF IsSome(v.epoch) THEN Unwrap(v.epoch) \o <<":">> ELSE << >>)
        \o v.upstream_version
        \o (IF IsSome(v.debian_revision) THEN <<"-">> \o Unwrap(v.debian_revision) ELSE << >>)

----------------------------------------------------------------------------
(* main.rs: u32 arithmetic of AgeInfo, on pairs of 16-bit halves            *)

Half == 65536

U32FromNat(n) == [hi |-> n \div Half, lo |-> n % Half]
U32_ZERO == [hi |-> 0, lo |-> 0]
U32_MAX == [hi |-> Half - 1, lo |-> Half - 1]

\* a < b on u32
U32Lt(a, b) == a.hi < b.hi \/ (a.hi = b.hi /\ a.lo < b.lo)

\* std::cmp::min
min(a, b) == IF U32Lt(b, a) THEN b ELSE a

\* a / 2 on u32
U32Div2(a) == [hi |-> a.hi \div 2, lo |-> (a.hi % 2) * (Half \div 2) + a.lo \div 2]

\* a - 1 on u32 as a build without overflow checks computes it (wrapping)
U32WrappingSub1(a) ==
    IF a.lo > 0 THEN [hi |-> a.hi, lo |-> a.lo - 1]
    ELSE IF a.hi > 0 THEN [hi |-> a.hi - 1, lo |-> Half - 1]
    ELSE U32_MAX

\* a - 1 overflows u32
U32Sub1Overflows(a) == a = U32_ZERO

----------------------------------------------------------------------------
(* main.rs: the data model of the excuses                                   *)

Verdict == {"Pass", "PassHinted", "RejectedNeedsApproval", "RejectedPermanently",
            "RejectedTemporarily", "RejectedCannotDetermineIfPermanent"}

\* the members of enum Architecture the modelled snapshots use
Architecture == {"All", "Amd64", "Arm64"}

\* Display for Architecture
ArchToString(a) ==
    CASE a = "All" -> "all" [] a = "Amd64" -> "amd64" [] a = "Arm64" -> "arm64"

Component == {"Main", "Contrib", "NonFree"}

\* the suffix main tests signers for, and the suffix of proposed-updates items
BuilddSuffix == <<"@buildd.debian.org">>
PuSuffix == <<"_pu">>

\* the version string that marks a removal
RemovalVersion == <<"-">>

----------------------------------------------------------------------------
(* main.rs: check_if_binnmu_required                                        *)

Returns(b) == [panicked |-> FALSE, value |-> b]
Panics == [panicked |-> TRUE, value |-> FALSE]

\* min(a.age_requirement / 2, a.age_requirement - 1), the subtraction wrapped
AgeThreshold(a) ==
    min(U32Div2(a.age_requirement), U32WrappingSub1(a.age_requirement))

\* mutant of too_young: <= for <
too_young_le(a) == ~U32Lt(AgeThreshold(a), a.current_age)

\* the test "too young" of the age policy
too_young(a) == U32Lt(a.current_age, AgeThreshold(a))

\* every other policy passes
extras_pass(extras) == \A k \in DOMAIN extras : extras[k] = "Pass"

\* oc: the build panics on integer overflow (debug profile) instead of wrapping
check_if_binnmu_required(policy_info, oc) ==
    IF /\ IsSome(policy_info.builtonbuildd)
       /\ Unwrap(policy_info.builtonbuildd).verdict = "Pass"
    THEN Returns(FALSE)
    ELSE IF /\ IsSome(policy_info.age)
            /\ oc
            /\ U32Sub1Overflows(Unwrap(policy_info.age).age_requirement)
    THEN Panics
    ELSE IF IsSome(policy_info.age) /\ too_young(Unwrap(policy_info.age))
    THEN Returns(FALSE)
    ELSE Returns(extras_pass(policy_info.extras))

----------------------------------------------------------------------------
(* main.rs: the loop of main over the items, and the printing              *)

\* signer.ends_with("@buildd.debian.org")
is_buildd_signer(signer) == EndsWith(signer, BuilddSuffix)

\* mutant of unofficial_archs: the test of the signer left out
unofficial_archs_unfiltered(signed_by) == DOMAIN signed_by

\* the architectures the loop over signed_by pushes to archs
unofficial_archs(signed_by) ==
    {a \in DOMAIN signed_by : ~is_buildd_signer(signed_by[a])}

\* the orders in which iterating the HashMap signed_by can fill archs
ArchOrders(item) ==
    IF /\ IsSome(item.policy_info)
       /\ IsSome(Unwrap(item.policy_info).builtonbuildd)
    THEN Orderings(unofficial_archs(
             Unwrap(Unwrap(item.policy_info).builtonbuildd).signed_by))
    ELSE {<< >>}

\* mutant of component_skips: contrib falls through
component_skips_nonfree(component) == component = Some("NonFree")

\* the match on item.component: TRUE when the item is skipped
component_skips(component) ==
    ~(component = Some("Main") \/ component = None)

\* item.new_version == item.old_version, on Strings
same_version(item) == item.new_version = item.old_version

\* mutant of contains_all: the test for arch:all left out
contains_all_never(archs) == FALSE

\* archs.contains(&Architecture::All)
contains_all(archs) == "All" \in Range(archs)

\* the branch by which one iteration of the loop leaves the body, archs being
\* the vector the iteration over signed_by would build
LoopBody(item, archs, oc) ==
    IF item.new_version = RemovalVersion THEN "removal"
    ELSE IF same_version(item) THEN "binnmu"
    ELSE IF EndsWith(item.item_name, PuSuffix) THEN "pu"
    ELSE IF component_skips(item.component) THEN "component"
    ELSE IF item.invalidated_by_other_package = Some(TRUE) THEN "blocked"
    ELSE IF IsSome(item.missing_builds) THEN "missing"
    ELSE IF IsNone(item.policy_info) THEN "no_policy"
    ELSE LET policy_info == Unwrap(item.policy_info)
             required == check_if_binnmu_required(policy_info, oc)
         IN  IF required.panicked THEN "panic_overflow"
             ELSE IF ~required.value THEN "not_required"
             ELSE IF IsNone(policy_info.builtonbuildd) THEN "panic_unwrap"
             ELSE IF contains_all(archs) THEN "arch_all"
             ELSE "pushed"

PanicOutcomes == {"panic_overflow", "panic_unwrap"}

ToBinNMU(item, archs) ==
    [source |-> item.source, version |-> item.new_version, architectures |-> archs]

\* SourcePackages::is_ma_same
is_ma_same(source) == source \in ma_same_sources

\* the architecture field of a printed line, as the tokens joined by " "
ArchField(info) ==
    IF is_ma_same(info.source) THEN <<"ANY">>
    ELSE [i \in 1..Len(info.architectures) |-> ArchToString(info.architectures[i])]

Line(info) ==
    [source |-> info.source, version |-> info.version, architectures |-> ArchField(info)]

\* one iteration of `for item in excuses.sources.iter()`
LoopIter ==
    /\ pc = "loop"
    /\ idx < Len(excuses)
    /\ LET item == excuses[idx + 1]
       IN  \E archs \in ArchOrders(item) :
               LET o == LoopBody(item, archs, overflow_checks)
               IN  /\ outcome' = Append(outcome, o)
                   /\ to_binnmu' = IF o = "pushed"
                                   THEN Append(to_binnmu, ToBinNMU(item, archs))
                                   ELSE to_binnmu
                   /\ pc' = IF o \in PanicOutcomes THEN "panicked" ELSE "loop"
    /\ idx' = idx + 1
    /\ UNCHANGED <<excuses, ma_same_sources, overflow_checks, output, arg, ret>>

\* the loop is exhausted
LoopEnd ==
    /\ pc = "loop"
    /\ idx = Len(excuses)
    /\ pc' = "print"
    /\ UNCHANGED <<excuses, ma_same_sources, overflow_checks, idx, to_binnmu,
                   outcome, output, arg, ret>>

\* one println! of `for info in to_binnmu`
PrintLine ==
    /\ pc = "print"
    /\ Len(output) < Len(to_binnmu)
    /\ output' = Append(output, Line(to_binnmu[Len(output) + 1]))
    /\ UNCHANGED <<excuses, ma_same_sources, overflow_checks, idx, to_binnmu,
                   outcome, pc, arg, ret>>

\* Ok(()) of main
Return ==
    /\ pc = "print"
    /\ Len(output) = Len(to_binnmu)
    /\ pc' = "done"
    /\ UNCHANGED <<excuses, ma_same_sources, overflow_checks, idx, to_binnmu,
                   outcome, output, arg, ret>>

----------------------------------------------------------------------------
(* The snapshots the engine is run on                                       *)

MaxItems == 2

V_1_1 == <<"1", "-", "1">>
V_0_1_1 == <<"0", ":", "1", "-", "1">>
V_2_1 == <<"2", "-", "1">>
NewVersions == {RemovalVersion, V_1_1, V_0_1_1, V_2_1}
OldVersions == {V_1_1}

Sources == {"foo", "bar"}
MaSameSources == {"foo"}

OfficialSigner == <<"buildd_x86-conova-01", "@buildd.debian.org">>
UnofficialSigner == <<"jdoe", "@debian.org">>
Signers == {OfficialSigner, UnofficialSigner}

\* HashMap<Architecture, String>
SignerMaps == UNION {[D -> Signers] : D \in SUBSET Architecture}

\* Option<BuiltOnBuildd> with any signer map and a passing or rejecting verdict
BuiltOnBuildds ==
    {None} \cup {Some([signed_by |-> m, verdict |-> v]) :
                     m \in SignerMaps, v \in {"Pass", "RejectedPermanently"}}

AgeInfo(r, c) == [age_requirement |-> U32FromNat(r), current_age |-> U32FromNat(c)]
EngineAges == {None, Some(AgeInfo(10, 4)), Some(AgeInfo(10, 5)), Some(AgeInfo(0, 0))}

ExtraNames == {"autopkgtest", "piuparts"}
\* HashMap<String, UnspecfiedPolicyInfo> over the names D
ExtrasOver(D, verdicts) == UNION {[E -> verdicts] : E \in SUBSET D}
EngineExtras == ExtrasOver({"piuparts"}, {"Pass", "PassHinted"})

PolicyInfo(age, builtonbuildd, extras) ==
    [age |-> age, builtonbuildd |-> builtonbuildd, extras |-> extras]

\* Option<PolicyInfo>
Policies ==
    {None} \cup {Some(PolicyInfo(a, b, e)) :
                     a \in EngineAges, b \in BuiltOnBuildds, e \in EngineExtras}

Item(source, item_name, new_version, old_version, component, invalidated, missing_builds, policy_info) ==
    [source |-> source, item_name |-> item_name, new_version |-> new_version,
     old_version |-> old_version, component |-> component,
     invalidated_by_other_package |-> invalidated,
     missing_builds |-> missing_builds, policy_info |-> policy_info]

\* the item of the end-to-end scenario: it passes every gate, amd64 was built
\* by the uploader and arm64 by a build daemon
BaseSignedBy == [a \in {"Amd64", "Arm64"} |->
                    IF a = "Amd64" THEN UnofficialSigner ELSE OfficialSigner]
BasePolicy ==
    PolicyInfo(None, Some([signed_by |-> BaseSignedBy, verdict |-> "RejectedPermanently"]),
               << >>)
BaseItem ==
    Item("bar", <<"bar">>, V_2_1, V_1_1, Some("Main"), None, None, Some(BasePolicy))

Components == {None} \cup {Some(c) : c \in Component}
Invalidated == {None, Some(TRUE), Some(FALSE)}
MissingBuilds == {None, Some(<<"Amd64">>)}

\* every combination of the fields the gates before the policy read, with a
\* missing, a complete and a provenance-less policy_info
GateItems ==
    {Item(s, <<s>> \o sfx, nv, ov, c, i, m, p) :
        s \in Sources, sfx \in {<< >>, PuSuffix},
        nv \in NewVersions, ov \in OldVersions, c \in Components,
        i \in Invalidated, m \in MissingBuilds,
        p \in {None, Some(BasePolicy), Some(PolicyInfo(None, None, << >>))}}

\* every policy_info, on items that pass the gates before it
PolicyItems ==
    {Item(s, <<s>>, V_2_1, V_1_1, c, None, None, p) :
        s \in Sources, c \in {None, Some("Main")}, p \in Policies}

Items == GateItems \cup PolicyItems

\* the policies that differ from BasePolicy in one respect
CorePolicies ==
    {None,
     Some(PolicyInfo(None, None, << >>)),
     Some([BasePolicy EXCEPT !.builtonbuildd =
              Some([signed_by |-> BaseSignedBy, verdict |-> "Pass"])]),
     Some([BasePolicy EXCEPT !.builtonbuildd =
              Some([signed_by |-> [a \in {"Amd64", "Arm64"} |-> OfficialSigner],
                    verdict |-> "RejectedPermanently"])]),
     Some([BasePolicy EXCEPT !.builtonbuildd =
              Some([signed_by |-> [a \in {"Amd64", "Arm64"} |-> UnofficialSigner],
                    verdict |-> "RejectedPermanently"])]),
     Some([BasePolicy EXCEPT !.builtonbuildd =
              Some([signed_by |-> [a \in {"All", "Amd64"} |-> UnofficialSigner],
                    verdict |-> "RejectedPermanently"])]),
     Some([BasePolicy EXCEPT !.age = Some(AgeInfo(10, 4))]),
     Some([BasePolicy EXCEPT !.age = Some(AgeInfo(0, 0))]),
     Some([BasePolicy EXCEPT !.extras = [k \in {"piuparts"} |-> "PassHinted"]])}

\* BaseItem and the items that differ from it in one field
CoreItems ==
    {BaseItem}
    \cup {[BaseItem EXCEPT !.new_version = v] : v \in NewVersions}
    \cup {[BaseItem EXCEPT !.item_name = <<"bar">> \o PuSuffix]}
    \cup {[BaseItem EXCEPT !.source = "foo", !.item_name = <<"foo">>]}
    \cup {[BaseItem EXCEPT !.component = c] : c \in Components}
    \cup {[BaseItem EXCEPT !.invalidated_by_other_package = i] : i \in Invalidated}
    \cup {[BaseItem EXCEPT !.missing_builds = m] : m \in MissingBuilds}
    \cup {[BaseItem EXCEPT !.policy_info = p] : p \in CorePolicies}

\* a snapshot holds any one item, or up to MaxItems of the core items
Snapshots ==
    {<<it>> : it \in Items}
    \cup {s \in SeqsUpTo(CoreItems, MaxItems) : Len(s) # 1}

\* the state of main when the loop over the items starts
Init ==
    /\ excuses \in Snapshots
    /\ ma_same_sources = MaSameSources
    /\ overflow_checks \in BOOLEAN
    /\ idx = 0
    /\ to_binnmu = << >>
    /\ outcome = << >>
    /\ output = << >>
    /\ pc = "loop"
    /\ arg = None
    /\ ret = None

Next == LoopIter \/ LoopEnd \/ PrintLine \/ Return

Spec == Init /\ [][Next]_vars

----------------------------------------------------------------------------
(* check_if_binnmu_required as a function of its argument                   *)

MaxAge == 10

AgeValues == {U32FromNat(n) : n \in 0..MaxAge} \cup {U32_MAX}

CheckAges ==
    {None} \cup {Some([age_requirement |-> r, current_age |-> c]) :
                     r \in AgeValues, c \in AgeValues}
CheckBuiltOnBuildds ==
    {None} \cup {Some([signed_by |-> BaseSignedBy, verdict |-> v]) : v \in Verdict}
CheckPolicies ==
    {PolicyInfo(a, b, e) :
        a \in CheckAges, b \in CheckBuiltOnBuildds,
        e \in ExtrasOver(ExtraNames, {"Pass", "PassHinted", "RejectedTemporarily"})}

InitCheck ==
    /\ arg \in {Some(p) : p \in CheckPolicies}
    /\ overflow_checks \in BOOLEAN
    /\ ret = None
    /\ pc = "call"
    /\ excuses = << >>
    /\ ma_same_sources = {}
    /\ idx = 0
    /\ to_binnmu = << >>
    /\ outcome = << >>
    /\ output = << >>

CallCheck ==
    /\ pc = "call"
    /\ ret' = Some(check_if_binnmu_required(Unwrap(arg), overflow_checks))
    /\ pc' = "returned"
    /\ UNCHANGED <<excuses, ma_same_sources, overflow_checks, idx, to_binnmu,
                   outcome, output, arg>>

NextCheck == CallCheck

SpecCheck == InitCheck /\ [][NextCheck]_vars

----------------------------------------------------------------------------
(* PackageVersion::try_from as a function of its argument                   *)

MaxLen == 4

Alphabet == {"0", "1", "a", ":", "-", "+"}

\* strings the bounded enumeration does not reach
LongVersions ==
    {<<"1", ":", "2", ":", "3">>,
     <<"1", ".", "0", "-", "2", "-", "1">>,
     <<"2", ":", "1", ".", "0", "+", "d", "f", "s", "g", "-", "1">>,
     U32_MAX_DIGITS \o <<":", "1">>,
     <<"4", "2", "9", "4", "9", "6", "7", "2", "9", "6", ":", "1">>,
     <<"0", "0", "0", "0", "0", "0", "0", "0", "0", "0", "1", ":", "1">>}

VersionStrings == SeqsUpTo(Alphabet, MaxLen) \cup LongVersions

InitParse ==
    /\ arg \in {Some(s) : s \in VersionStrings}
    /\ ret = None
    /\ pc = "call"
    /\ overflow_checks = FALSE
    /\ excuses = << >>
    /\ ma_same_sources = {}
    /\ idx = 0
    /\ to_binnmu = << >>
    /\ outcome = << >>
    /\ output = << >>

CallTryFrom ==
    /\ pc = "call"
    /\ ret' = Some(try_from(Unwrap(arg)))
    /\ pc' = "returned"
    /\ UNCHANGED <<excuses, ma_same_sources, overflow_checks, idx, to_binnmu,
                   outcome, output, arg>>

NextParse == CallTryFrom

SpecParse == InitParse /\ [][NextParse]_vars

----------------------------------------------------------------------------
(* try_from, to_string and try_from again, on the same inputs               *)

\* to_string of the version a successful try_from returned
CallToString ==
    /\ pc = "returned"
    /\ IsOk(Unwrap(ret))
    /\ ret' = Some(to_string(Unwrap(Unwrap(ret).value)))
    /\ pc' = "rendered"
    /\ UNCHANGED <<excuses, ma_same_sources, overflow_checks, idx, to_binnmu,
                   outcome, output, arg>>

\* try_from of the string to_string wrote
CallTryFromRendered ==
    /\ pc = "rendered"
    /\ ret' = Some(try_from(Unwrap(ret)))
    /\ pc' = "reparsed"
    /\ UNCHANGED <<excuses, ma_same_sources, overflow_checks, idx, to_binnmu,
                   outcome, output, arg>>

NextRoundTrip == CallTryFrom \/ CallToString \/ CallTryFromRendered

SpecRoundTrip == InitParse /\ [][NextRoundTrip]_vars

----------------------------------------------------------------------------
(* main.rs: SourcePackages::new over the index files                        *)

\* A Source field is the sequence of its words and of the whitespace between
\* them, each stretch of whitespace one " "; the empty sequence is the empty
\* String the deserializer puts for an absent field.
Whitespace == " "

\* str::split_whitespace().next()
first_word(source) ==
    IF \E i \in 1..Len(source) : source[i] # Whitespace
    THEN Some(source[CHOOSE i \in 1..Len(source) :
                        source[i] # Whitespace /\ \A j \in 1..(i - 1) : source[j] = Whitespace])
    ELSE None

\* mutant of source_name: the Source field is ignored
source_name_package(binary_package) == binary_package.package

\* the name parse_packages inserts for a binary package
source_name(binary_package) ==
    IF Len(binary_package.source) > 0
    THEN Unwrap(first_word(binary_package.source))
    ELSE binary_package.package

\* the loop of parse_packages over the binary packages of one file
RECURSIVE parse_packages(_)
parse_packages(binary_packages) ==
    IF Len(binary_packages) = 0 THEN {}
    ELSE LET binary_package == binary_packages[1]
             rest == parse_packages(Tail(binary_packages))
         IN  IF binary_package.multi_arch = "same"
             THEN {source_name(binary_package)} \cup rest
             ELSE rest

MaxFiles == 2
MaxRecords == 1

BinaryPackage(package, source, multi_arch) ==
    [package |-> package, source |-> source, multi_arch |-> multi_arch]

\* a package without Source field and one with a Source field that carries a
\* version, each with no, the "same" and another Multi-Arch field
BinaryPackages ==
    {BinaryPackage(n[1], n[2], m) :
        n \in {<<"foo", << >>>>, <<"libbar1", <<"bar", Whitespace, "(1.0)">>>>},
        m \in {"", "same", "foreign"}}

\* an index file: its binary packages, or a file that cannot be read or parsed
PackagesFiles ==
    {[readable |-> TRUE, binary_packages |-> b] : b \in SeqsUpTo(BinaryPackages, MaxRecords)}
    \cup {[readable |-> FALSE, binary_packages |-> << >>]}

\* the state of SourcePackages::new before its loop over the paths
InitIndex ==
    /\ arg \in {Some(paths) : paths \in SeqsUpTo(PackagesFiles, MaxFiles)}
    /\ ma_same_sources = {}
    /\ idx = 0
    /\ pc = "index"
    /\ ret = None
    /\ overflow_checks = FALSE
    /\ excuses = << >>
    /\ to_binnmu = << >>
    /\ outcome = << >>
    /\ output = << >>

\* one iteration of `for path in paths`: parse_packages and extend, or the
\* error of parse_packages returned by `?`
ParsePackages ==
    /\ pc = "index"
    /\ idx < Len(Unwrap(arg))
    /\ LET file == Unwrap(arg)[idx + 1]
       IN  IF file.readable
           THEN /\ ma_same_sources' = ma_same_sources \cup parse_packages(file.binary_packages)
                /\ pc' = "index"
           ELSE /\ ma_same_sources' = ma_same_sources
                /\ pc' = "failed"
    /\ idx' = idx + 1
    /\ UNCHANGED <<excuses, overflow_checks, to_binnmu, outcome, output, arg, ret>>

\* Ok(Self { ma_same_sources })
IndexBuilt ==
    /\ pc = "index"
    /\ idx = Len(Unwrap(arg))
    /\ pc' = "built"
    /\ UNCHANGED <<excuses, ma_same_sources, overflow_checks, idx, to_binnmu,
                   outcome, output, arg, ret>>

NextIndex == ParsePackages \/ IndexBuilt

SpecIndex == InitIndex /\ [][NextIndex]_vars

----------------------------------------------------------------------------
(* Vocabulary of the properties                                             *)

\* the items the loop has consumed, and those it pushed a directive for
Consumed == 1..Len(outcome)
PushedIdx == {i \in Consumed : outcome[i] = "pushed"}

\* the item the k-th directive was pushed for
ItemOfDirective(k) ==
    excuses[CHOOSE i \in PushedIdx : Cardinality({j \in PushedIdx : j <= i}) = k]

\* no directive exists for item i: the loop did not push one for it, and
\* every directive queued or printed belongs to a pushed item
NoDirectiveFor(i) ==
    /\ i \notin PushedIdx
    /\ Len(to_binnmu) = Cardinality(PushedIdx)
    /\ Len(output) <= Len(to_binnmu)

\* equality of two version strings as PackageVersions
VersionsEqual(a, b) ==
    /\ IsOk(try_from(a))
    /\ IsOk(try_from(b))
    /\ eq(Unwrap(try_from(a).value), Unwrap(try_from(b).value))

\* gates 1 to 6 of the decision, as the specification words them
PassesGates1to6(item) ==
    /\ item.new_version # <<"-">>
    /\ ~VersionsEqual(item.new_version, item.old_version)
    /\ (Len(item.item_name) = 0 \/ item.item_name[Len(item.item_name)] # "_pu")
    /\ item.component \in {None, Some("Main")}
    /\ item.invalidated_by_other_package # Some(TRUE)
    /\ item.missing_builds = None

HasPolicy(item) == item.policy_info # None
HasProvenance(item) == HasPolicy(item) /\ item.policy_info[1].builtonbuildd # None
SignedBy(item) == item.policy_info[1].builtonbuildd[1].signed_by

\* the signer is not the build-daemon identity
Unofficial(signer) ==
    Len(signer) = 0 \/ signer[Len(signer)] # "@buildd.debian.org"

----------------------------------------------------------------------------
(* C1                                                                       *)

\* C1: an item whose proposed and currently-migrated versions are equal as
\* PackageVersions (a missing epoch counting as 0) gets no directive.
C1_EqualVersionsNoDirective ==
    \A i \in Consumed :
        VersionsEqual(excuses[i].new_version, excuses[i].old_version)
            => NoDirectiveFor(i)

----------------------------------------------------------------------------
(* C2                                                                       *)

\* C2: an item that passes gates 1 to 6 and has a policy_info without the
\* builtonbuildd record gets no directive and does not abort the run.
C2_NoProvenanceSilentlyExcluded ==
    \A i \in Consumed :
        (/\ PassesGates1to6(excuses[i])
         /\ HasPolicy(excuses[i])
         /\ ~HasProvenance(excuses[i]))
            => /\ NoDirectiveFor(i)
               /\ outcome[i] \notin PanicOutcomes
               /\ (i = Len(outcome) => pc # "panicked")

----------------------------------------------------------------------------
(* C3                                                                       *)

\* C3: every printed directive names ANY or at least one architecture.
C3_ArchitecturesNonEmpty ==
    \A k \in 1..Len(output) : Len(output[k].architectures) >= 1

----------------------------------------------------------------------------
(* C4 and C5: check_if_binnmu_required                                      *)

IntMin(a, b) == IF a <= b THEN a ELSE b

\* current_age < min(age_requirement / 2, age_requirement - 1) over the
\* integers.  Every modelled age but U32_MAX is below Half; the threshold of
\* U32_MAX is 2^31 - 1, above every other modelled age and below U32_MAX.
BelowThreshold(a) ==
    IF a.current_age = U32_MAX THEN FALSE
    ELSE IF a.age_requirement = U32_MAX THEN TRUE
    ELSE a.current_age.lo <
             IntMin(a.age_requirement.lo \div 2, a.age_requirement.lo - 1)

Called == pc = "returned" /\ IsSome(ret)
ReturnedFalse == ~ret[1].panicked /\ ~ret[1].value
ReturnedTrue == ~ret[1].panicked /\ ret[1].value

ProvenancePasses(p) == p.builtonbuildd # None /\ p.builtonbuildd[1].verdict = "Pass"
AllExtrasPass(p) == {k \in DOMAIN p.extras : p.extras[k] # "Pass"} = {}
AgeGateFires(p) == p.age # None /\ BelowThreshold(p.age[1])

\* C4: with an age sub-policy, a provenance verdict that is not pass and all
\* extras passing, the function returns false iff current_age is below
\* min(age_requirement / 2, age_requirement - 1); without an age sub-policy
\* the same call returns true.
C4_AgeGate ==
    (Called /\ ~ProvenancePasses(arg[1]) /\ AllExtrasPass(arg[1]))
        => IF arg[1].age # None
           THEN ReturnedFalse <=> BelowThreshold(arg[1].age[1])
           ELSE ReturnedTrue

\* C4 witness: age_requirement 10 and current_age 4 returned false
C4_Witness ==
    /\ Called
    /\ ~ProvenancePasses(arg[1])
    /\ AllExtrasPass(arg[1])
    /\ arg[1].age = Some(AgeInfo(10, 4))
    /\ ReturnedFalse

\* C5: false whenever the provenance verdict is pass; otherwise, when the age
\* gate does not fire, true iff every verdict of the extras is pass.
C5_Eligibility ==
    Called =>
        /\ ProvenancePasses(arg[1]) => ReturnedFalse
        /\ (~ProvenancePasses(arg[1]) /\ ~AgeGateFires(arg[1]))
               => (ReturnedTrue <=> AllExtrasPass(arg[1]))

----------------------------------------------------------------------------
(* C6, C7, C9: the gates of the loop                                        *)

AllUnofficiallySigned(item) ==
    /\ HasProvenance(item)
    /\ "All" \in DOMAIN SignedBy(item)
    /\ Unofficial(SignedBy(item)["All"])

\* C6: an item whose signer map lists `all` with an unofficial signer gets no
\* directive; the arch:all gate excludes no other item.
C6_ArchAllExcluded ==
    \A i \in Consumed :
        /\ AllUnofficiallySigned(excuses[i]) => NoDirectiveFor(i)
        /\ outcome[i] = "arch_all" => AllUnofficiallySigned(excuses[i])

\* C6 witness: an item that passes everything else is stopped because `all`
\* is unofficially signed next to an unofficially signed real architecture
C6_Witness ==
    \E i \in Consumed :
        /\ outcome[i] = "arch_all"
        /\ \E a \in DOMAIN SignedBy(excuses[i]) :
               a # "All" /\ Unofficial(SignedBy(excuses[i])[a])

\* C7: a printed directive of a source in the SourceIndex has the field ANY;
\* any other has exactly the unofficially signed architectures, each once.
C7_ArchitectureField ==
    \A k \in 1..Len(output) :
        LET item == ItemOfDirective(k)
            want == {a \in DOMAIN SignedBy(item) : Unofficial(SignedBy(item)[a])}
        IN  IF item.source \in ma_same_sources
            THEN output[k].architectures = <<"ANY">>
            ELSE /\ Len(output[k].architectures) = Cardinality(want)
                 /\ Range(output[k].architectures) = {ArchToString(a) : a \in want}

\* C7 witness: a wildcard directive and an explicit list of two architectures
\* have been printed in one run
C7_Witness ==
    /\ \E k \in 1..Len(output) :
           output[k].architectures = <<"ANY">> /\ output[k].source = "foo"
    /\ \E k \in 1..Len(output) :
           /\ Range(output[k].architectures) = {"amd64", "arm64"}
           /\ output[k].source = "bar"

\* C9: a contrib or non-free item gets no directive; the component gate
\* excludes no item of main or without component.
C9_ComponentGate ==
    \A i \in Consumed :
        /\ excuses[i].component \in {Some("Contrib"), Some("NonFree")}
               => NoDirectiveFor(i)
        /\ excuses[i].component \in {None, Some("Main")}
               => outcome[i] # "component"

\* C9 witness: a contrib item that every other gate would let through was
\* consumed and left by the component gate, and an item of main was pushed
C9_Witness ==
    /\ \E i \in Consumed :
           /\ excuses[i] = [BaseItem EXCEPT !.component = Some("Contrib")]
           /\ outcome[i] = "component"
    /\ \E i \in Consumed : excuses[i].component = Some("Main") /\ i \in PushedIdx

----------------------------------------------------------------------------
(* C8: the output as a whole                                                *)

\* the item passes every gate of the decision, as the specification words
\* them: gates 1 to 6, a policy_info with a provenance record, eligibility,
\* and `all` not among the unofficially signed architectures
EligibleBySpec(item) ==
    /\ PassesGates1to6(item)
    /\ HasProvenance(item)
    /\ ~ProvenancePasses(item.policy_info[1])
    /\ ~AgeGateFires(item.policy_info[1])
    /\ AllExtrasPass(item.policy_info[1])
    /\ ~AllUnofficiallySigned(item)

SourceVersion(r) == <<r.source, r.version>>
ExpectedPairs ==
    LET eligible == SelectSeq(excuses, EligibleBySpec)
    IN  [k \in 1..Len(eligible) |-> <<eligible[k].source, eligible[k].new_version>>]
PrintedPairs == [k \in 1..Len(output) |-> SourceVersion(output[k])]

\* C8: when the run has ended, the (source, version) pairs printed are those
\* of the eligible items of the snapshot, in snapshot order.
C8_OutputIsEligibleSubsequence ==
    pc \in {"done", "panicked"} => PrintedPairs = ExpectedPairs

----------------------------------------------------------------------------
(* C10: the epoch of a version string                                       *)

HasColon(s) == \E i \in 1..Len(s) : s[i] = ":"
BeforeFirstColon(s) ==
    SubSeq(s, 1, (CHOOSE i \in 1..Len(s) : s[i] = ":" /\ \A j \in 1..(i - 1) : s[j] # ":") - 1)
BeforeLastColon(s) ==
    SubSeq(s, 1, (CHOOSE i \in 1..Len(s) : s[i] = ":" /\ \A j \in (i + 1)..Len(s) : s[j] # ":") - 1)

\* the digits of a u32 literal: an optional '+' dropped
LiteralDigits(p) == IF Len(p) > 0 /\ p[1] = "+" THEN SubSeq(p, 2, Len(p)) ELSE p
\* p is a u32 literal: an optional '+', one or more digits, at most 2^32 - 1
IsU32Literal(p) ==
    /\ Len(LiteralDigits(p)) > 0
    /\ \A i \in 1..Len(LiteralDigits(p)) : LiteralDigits(p)[i] \in Digits
    /\ FitsU32(LiteralDigits(p))
\* p is an unsigned integer of any size, an optional '+' allowed
IsUnsignedInteger(p) ==
    /\ Len(LiteralDigits(p)) > 0
    /\ \A i \in 1..Len(LiteralDigits(p)) : LiteralDigits(p)[i] \in Digits

Parsed == pc = "returned" /\ IsSome(ret)

\* C10 as stated: the epoch is the text before the last ':', and the parse
\* fails with InvalidEpoch whenever that text is empty or not an unsigned
\* integer.
C10_EpochBeforeLastColon ==
    (Parsed /\ HasColon(arg[1]))
        => (~IsUnsignedInteger(BeforeLastColon(arg[1]))
                => ret[1].err = "InvalidEpoch")

\* C10 amended: the epoch is the text before the first ':'; the parse fails
\* with InvalidEpoch exactly when that text is not a u32 literal, and a
\* successful parse has the value of that text as epoch; "1:2:3" fails with
\* InvalidUpstreamVersion.
C10_EpochBeforeFirstColon ==
    (Parsed /\ HasColon(arg[1]))
        => /\ ret[1].err = "InvalidEpoch" <=> ~IsU32Literal(BeforeFirstColon(arg[1]))
           /\ IsOk(ret[1]) =>
                  ret[1].value[1].epoch =
                      Some(StripLeadingZeros(LiteralDigits(BeforeFirstColon(arg[1]))))
           /\ arg[1] = <<"1", ":", "2", ":", "3">>
                  => ret[1].err = "InvalidUpstreamVersion"

\* C10 witness: "1:2:3" was parsed and rejected for its upstream version
C10_Witness ==
    /\ Parsed
    /\ arg[1] = <<"1", ":", "2", ":", "3">>
    /\ ret[1].err = "InvalidUpstreamVersion"

----------------------------------------------------------------------------
(* C11: the round trip                                                      *)

\* the two versions have the same epoch (none counting as 0), the same
\* upstream version and the same revision
SameVersion(a, b) ==
    /\ (IF a.epoch = None THEN <<"0">> ELSE a.epoch[1])
           = (IF b.epoch = None THEN <<"0">> ELSE b.epoch[1])
    /\ a.upstream_version = b.upstream_version
    /\ a.debian_revision = b.debian_revision

\* C11: the string written for a parsed version parses again, to a version
\* equal to the first; and a string without epoch that parses equals, parsed,
\* the same string with "0:" put before it.
C11_RoundTrip ==
    /\ pc = "reparsed"
           => /\ IsOk(ret[1])
              /\ SameVersion(ret[1].value[1], try_from(arg[1]).value[1])
              /\ eq(ret[1].value[1], try_from(arg[1]).value[1])
    /\ (pc = "returned" /\ IsOk(ret[1]) /\ ~HasColon(arg[1]))
           => /\ IsOk(try_from(<<"0", ":">> \o arg[1]))
              /\ SameVersion(try_from(<<"0", ":">> \o arg[1]).value[1], ret[1].value[1])
              /\ eq(try_from(<<"0", ":">> \o arg[1]).value[1], ret[1].value[1])

\* C11 witness: "2:1.0+dfsg-1" was parsed, written and parsed again
C11_Witness ==
    /\ pc = "reparsed"
    /\ arg[1] = <<"2", ":", "1", ".", "0", "+", "d", "f", "s", "g", "-", "1">>
    /\ IsOk(ret[1])
    /\ ret[1].value[1].epoch = Some(<<"2">>)

----------------------------------------------------------------------------
(* C12: the revision of a version string                                    *)

HasHyphen(s) == \E i \in 1..Len(s) : s[i] = "-"
\* the input without its epoch: what follows the first ':'
AfterEpoch(s) ==
    IF HasColon(s) THEN SubSeq(s, Len(BeforeFirstColon(s)) + 2, Len(s)) ELSE s
LastHyphen(s) == CHOOSE i \in 1..Len(s) : s[i] = "-" /\ \A j \in (i + 1)..Len(s) : s[j] # "-"

\* C12: a successful parse has as revision the text after the last '-' of the
\* remainder and as upstream version all before it, or no revision and the
\* whole remainder when there is no '-'; the upstream version is not empty,
\* the revision is absent or not empty and without '-'; "1.0-2-1" gives
\* "1.0-2" and "1"; "-1" and "0:-1" are rejected.
C12_RevisionAfterLastHyphen ==
    Parsed =>
        /\ IsOk(ret[1]) =>
               LET v == ret[1].value[1]
                   rem == AfterEpoch(arg[1])
               IN  /\ IF HasHyphen(rem)
                      THEN /\ v.debian_revision = Some(SubSeq(rem, LastHyphen(rem) + 1, Len(rem)))
                           /\ v.upstream_version = SubSeq(rem, 1, LastHyphen(rem) - 1)
                      ELSE /\ v.debian_revision = None
                           /\ v.upstream_version = rem
                   /\ Len(v.upstream_version) > 0
                   /\ v.debian_revision # None
                          => /\ Len(v.debian_revision[1]) > 0
                             /\ ~HasHyphen(v.debian_revision[1])
        /\ arg[1] = <<"1", ".", "0", "-", "2", "-", "1">>
               => /\ IsOk(ret[1])
                  /\ ret[1].value[1].upstream_version = <<"1", ".", "0", "-", "2">>
                  /\ ret[1].value[1].debian_revision = Some(<<"1">>)
        /\ arg[1] \in {<<"-", "1">>, <<"0", ":", "-", "1">>} => ~IsOk(ret[1])

\* C12 witness: "1.0-2-1" was parsed to upstream version "1.0-2"
C12_Witness ==
    /\ Parsed
    /\ arg[1] = <<"1", ".", "0", "-", "2", "-", "1">>
    /\ IsOk(ret[1])
    /\ ret[1].value[1].upstream_version = <<"1", ".", "0", "-", "2">>

----------------------------------------------------------------------------
(* C13: the SourceIndex                                                     *)

\* every binary package of every input file
AllBinaryPackages ==
    UNION {Range(arg[1][f].binary_packages) : f \in 1..Len(arg[1])}

\* the first whitespace-delimited word of the Source field when there is
\* one, the Package name otherwise
ResolvedSource(bp) ==
    IF bp.source = << >> THEN bp.package
    ELSE (SelectSeq(bp.source, LAMBDA w : w # " "))[1]

\* C13: the set built holds exactly the resolved source names of the records
\* with Multi-Arch "same", whatever the order of the files.
C13_SourceIndex ==
    pc = "built"
        => ma_same_sources =
               {ResolvedSource(bp) : bp \in {b \in AllBinaryPackages : b.multi_arch = "same"}}

\* C13 witness: two files were read, one gave "bar" through its Source field
\* and the other "foo" through its Package name
C13_Witness ==
    /\ pc = "built"
    /\ Len(arg[1]) = 2
    /\ ma_same_sources = {"foo", "bar"}

----------------------------------------------------------------------------
(* C14: determinism of the printed lines                                    *)

\* C14: every printed line is the line that every traversal of the signer
\* map of its item gives, so that two runs on the same snapshot and the same
\* set of multi-arch "same" sources print the same architecture tokens in
\* the same order.
C14_Deterministic ==
    \A k \in 1..Len(output) :
        \A archs \in ArchOrders(ItemOfDirective(k)) :
            Line(ToBinNMU(ItemOfDirective(k), archs)) = output[k]

----------------------------------------------------------------------------
(* C15: the subtraction age_requirement - 1                                 *)

\* the call reached the comparison of main.rs:160
AgeEvaluated == Called /\ ~ProvenancePasses(arg[1]) /\ arg[1].age # None

\* C15: whenever the threshold is computed, the run is not aborted, the
\* result of age_requirement - 1 is below age_requirement (it did not wrap),
\* and with age_requirement = 0 the age test rejects no current_age.
C15_NoUnderflow ==
    AgeEvaluated =>
        /\ ~ret[1].panicked
        /\ U32Lt(U32WrappingSub1(arg[1].age[1].age_requirement),
                 arg[1].age[1].age_requirement)
        /\ (arg[1].age[1].age_requirement = U32_ZERO /\ AllExtrasPass(arg[1]))
               => ReturnedTrue

=============================================================================
